---- MODULE Spec2Model ----
(***************************************************************************)
(* A model of the yawr WAV codec: the sample codec (sample.rs), the header *)
(* codec and format dispatcher (lowlevel/mod.rs), the streaming decoder    *)
(* (lowlevel/reader.rs) and the streaming encoder (lowlevel/writer.rs).    *)
(*                                                                         *)
(* Bytes are integers 0..255.  A sink or source is a record                *)
(* [bytes, pos]: the stored bytes and the stream position (0-based).       *)
(* A sample value is a numeral [neg, mag]: a sign and the base-256 digits   *)
(* of the magnitude, least significant first, without trailing zeros; a    *)
(* float sample is the numeral of its IEEE-754 bit pattern, which is what  *)
(* to_le_bytes / from_le_bytes transmute.  Header fields are integers.     *)
(***************************************************************************)
EXTENDS Integers, Sequences, FiniteSets, TLC

VARIABLES
    dasp,        \* build configuration: is the "dasp" cargo feature enabled
    wstate,      \* encoder lifetime: "Unopened", "Writing", "Closed",
                 \*   "Panicked"
    elemT,       \* the encoder's element type T
    desc,        \* the WavFileDesc<T> the encoder was opened with
    header,      \* WavWriter.file.header
    data,        \* WavWriter.file.data: the sink the encoder owns
    data_size,   \* WavWriter.data_size
    returned,    \* the sink into_inner handed back (NoSink before that)
    result,      \* what the last encoder operation returned: "None", "Ok",
                 \*   "Err", or "Panic" when it did not return
    faultsLeft,  \* how many more sink operations may fail or fall short in
                 \*   this run
    log,         \* history of the encoder run (observation only)
    src,         \* the byte source the decoder owns
    rstate,      \* decoder lifetime: "NoSource", "Source", "Parsed", "ParseErr",
                 \*   "Iter", "Unsupported", "Panic"
    parsed,      \* result of WavHeader::from_reader
    iter,        \* the SampleIteratorFormat variant selected by samples()
    yielded,     \* the samples next() has returned so far
    ended,       \* next() has returned None
    lenSeen,     \* the last len() call: after how many samples, and its outcome
    input        \* the generated decoder input (NoInput in encoder runs)

vars == <<dasp, wstate, elemT, desc, header, data, data_size, returned, result,
          faultsLeft, log, src, rstate, parsed, iter, yielded, ended, lenSeen,
          input>>

encVars == <<wstate, elemT, desc, header, data, data_size, returned, result,
             faultsLeft, log>>
decVars == <<src, rstate, parsed, iter, yielded, ended, lenSeen, input>>

(***************************************************************************)
(* Bounds of the model.                                                    *)
(***************************************************************************)
\* most samples one encoder run writes successfully
MaxSamples == 1
\* longest sequence handed to one write_iter call
MaxIter == 2
\* most sink operations that fail in one run
MaxFaults == 1
\* most payload bytes of a generated decoder input
MaxPayload == 8

(***************************************************************************)
(* Sample Codec Capability (sample.rs)                                     *)
(***************************************************************************)
NumIOTypes == {"u8", "u16", "u32", "u64", "i8", "i16", "i32", "i64", "f32", "f64"}

SizeOf(t) ==
    CASE t \in {"u8", "i8"} -> 1
      [] t \in {"u16", "i16"} -> 2
      [] t \in {"u32", "i32", "f32"} -> 4
      [] t \in {"u64", "i64", "f64"} -> 8

IsSigned(t) == t \in {"i8", "i16", "i32", "i64"}

Zeros(n) == [i \in 1..n |-> 0]

RECURSIVE Strip(_)
Strip(d) ==
    IF d = <<>> THEN <<>>
    ELSE IF d[Len(d)] = 0 THEN Strip(SubSeq(d, 1, Len(d) - 1)) ELSE d

\* d + 1 and d - 1 on digit sequences (d - 1 for d # 0)
RECURSIVE Inc(_)
Inc(d) ==
    IF d = <<>> THEN <<1>>
    ELSE IF Head(d) < 255 THEN <<Head(d) + 1>> \o Tail(d)
    ELSE <<0>> \o Inc(Tail(d))

RECURSIVE Dec(_)
Dec(d) ==
    IF Head(d) > 0 THEN <<Head(d) - 1>> \o Tail(d)
    ELSE <<255>> \o Dec(Tail(d))

Invert(d) == [i \in 1..Len(d) |-> 255 - d[i]]

\* <$type>::to_le_bytes: two's complement for a negative value
to_le_bytes(t, v) ==
    IF v.neg
    THEN Invert(Dec(v.mag) \o Zeros(SizeOf(t) - Len(v.mag)))
    ELSE v.mag \o Zeros(SizeOf(t) - Len(v.mag))

\* <$type>::from_le_bytes, for a signed or an unsigned type
FromLe(bs, signed) ==
    IF signed /\ bs[Len(bs)] >= 128
    THEN [neg |-> TRUE, mag |-> Strip(Inc(Invert(bs)))]
    ELSE [neg |-> FALSE, mag |-> Strip(bs)]

\* the little-endian bytes of the integer v in w bytes
RECURSIVE ToLeBytes(_, _)
ToLeBytes(v, w) ==
    IF w = 0 THEN <<>> ELSE <<v % 256>> \o ToLeBytes(v \div 256, w - 1)

RECURSIVE LeUnsigned(_)
LeUnsigned(bs) ==
    IF bs = <<>> THEN 0 ELSE Head(bs) + 256 * LeUnsigned(Tail(bs))


(***************************************************************************)
(* Byte sinks and sources.  The encoder is generic over W: Seek + Write,   *)
(* the decoder over R: Read.  A write at a position past the end pads the  *)
(* gap with zeros (std::io::Cursor, files).  A write or seek may fail; a   *)
(* failed write_all leaves a proper prefix of the bytes in the sink.       *)
(***************************************************************************)
Max(a, b) == IF a >= b THEN a ELSE b

SinkWrite(s, bs) ==
    LET old == IF s.pos > Len(s.bytes)
               THEN s.bytes \o Zeros(s.pos - Len(s.bytes))
               ELSE s.bytes
        n   == Max(Len(old), s.pos + Len(bs))
    IN [bytes |-> [i \in 1..n |->
                      IF i > s.pos /\ i <= s.pos + Len(bs)
                      THEN bs[i - s.pos] ELSE old[i]],
        pos   |-> s.pos + Len(bs)]

\* one write_all(bs): ok, or failed after `keep` bytes went through; a
\* failed write that took no byte leaves the sink as it was
SinkWriteAll(s, bs, ok, keep) ==
    IF ok THEN SinkWrite(s, bs)
    ELSE IF keep > 0 /\ keep < Len(bs) THEN SinkWrite(s, SubSeq(bs, 1, keep))
    ELSE s

\* one Write::write(bs) on a sink that takes at most `accept` bytes in a
\* call: Ok(n) with the first n bytes written, or Err with none written
SinkWriteOnce(s, bs, ok, accept) ==
    IF ok /\ accept > 0 /\ Len(bs) > 0
    THEN SinkWrite(s, SubSeq(bs, 1, IF accept < Len(bs) THEN accept ELSE Len(bs)))
    ELSE s

SinkSeekStart(s, n, ok) == IF ok THEN [s EXCEPT !.pos = n] ELSE s

SinkSeekEnd(s, ok) == IF ok THEN [s EXCEPT !.pos = Len(s.bytes)] ELSE s

\* read_exact(n): the bytes, or a short read
CanRead(s, n) == s.pos + n <= Len(s.bytes)

ReadBytes(s, n) == SubSeq(s.bytes, s.pos + 1, s.pos + n)

Advance(s, n) == [s EXCEPT !.pos = s.pos + n]

(***************************************************************************)
(* Header Codec (lowlevel/mod.rs)                                          *)
(***************************************************************************)
PCMLinear == [kind |-> "PCMLinear", code |-> 1]
PCMFloat == [kind |-> "PCMFloat", code |-> 3]
Unknown(x) == [kind |-> "Unknown", code |-> x]

AudioFormat_from_u16(d) ==
    CASE d = 1 -> PCMLinear
      [] d = 3 -> PCMFloat
      [] OTHER -> Unknown(d)

\* the u16 that AudioFormat::write emits
AudioFormat_code(f) ==
    CASE f.kind = "PCMLinear" -> 1
      [] f.kind = "PCMFloat" -> 3
      [] OTHER -> f.code

AudioFormat_from_type(t) ==
    IF t \in {"f32", "f64"} THEN PCMFloat
    ELSE IF t \in {"u8", "i16", "i32", "i64"} THEN PCMLinear
    ELSE Unknown(0)

TagRIFF == <<82, 73, 70, 70>>
TagWAVE == <<87, 65, 86, 69>>
TagFmt == <<102, 109, 116, 32>>
TagData == <<100, 97, 116, 97>>

\* the sub-chunk size WavHeader::write emits for the format chunk
FmtChunkSize == 16

\* String::from_utf8_lossy, as the UTF-8 bytes of the resulting String: valid
\* characters are kept, every maximal invalid chunk becomes U+FFFD (EF BF BD)
Replacement == <<239, 191, 189>>

Utf8CharWidth(b) ==
    CASE b < 128 -> 1
      [] b >= 194 /\ b <= 223 -> 2
      [] b >= 224 /\ b <= 239 -> 3
      [] b >= 240 /\ b <= 244 -> 4
      [] OTHER -> 0

SafeGet(bs, i) == IF i <= Len(bs) THEN bs[i] ELSE 0

IsCont(b) == b >= 128 /\ b <= 191

\* the second byte a 3- or 4-byte lead admits
SecondOk(a, b) ==
    CASE a = 224 -> b >= 160 /\ b <= 191
      [] a >= 225 /\ a <= 236 -> IsCont(b)
      [] a = 237 -> b >= 128 /\ b <= 159
      [] a >= 238 /\ a <= 239 -> IsCont(b)
      [] a = 240 -> b >= 144 /\ b <= 191
      [] a >= 241 /\ a <= 243 -> IsCont(b)
      [] a = 244 -> b >= 128 /\ b <= 143
      [] OTHER -> FALSE

\* the chunk that starts at bs[i]: a valid character, or an invalid chunk
Utf8Chunk(bs, i) ==
    LET a == bs[i]
        w == Utf8CharWidth(a)
    IN CASE w = 1 -> [valid |-> TRUE, len |-> 1]
         [] w = 2 -> IF IsCont(SafeGet(bs, i + 1))
                     THEN [valid |-> TRUE, len |-> 2]
                     ELSE [valid |-> FALSE, len |-> 1]
         [] w = 3 -> IF ~SecondOk(a, SafeGet(bs, i + 1))
                     THEN [valid |-> FALSE, len |-> 1]
                     ELSE IF ~IsCont(SafeGet(bs, i + 2))
                     THEN [valid |-> FALSE, len |-> 2]
                     ELSE [valid |-> TRUE, len |-> 3]
         [] w = 4 -> IF ~SecondOk(a, SafeGet(bs, i + 1))
                     THEN [valid |-> FALSE, len |-> 1]
                     ELSE IF ~IsCont(SafeGet(bs, i + 2))
                     THEN [valid |-> FALSE, len |-> 2]
                     ELSE IF ~IsCont(SafeGet(bs, i + 3))
                     THEN [valid |-> FALSE, len |-> 3]
                     ELSE [valid |-> TRUE, len |-> 4]
         [] OTHER -> [valid |-> FALSE, len |-> 1]

\* mutant of from_utf8_lossy: the bytes are taken as they are
Utf8Unchecked(bs) == bs

RECURSIVE LossyFrom(_, _)
LossyFrom(bs, i) ==
    IF i > Len(bs) THEN <<>>
    ELSE LET c == Utf8Chunk(bs, i)
         IN (IF c.valid THEN SubSeq(bs, i, i + c.len - 1) ELSE Replacement)
            \o LossyFrom(bs, i + c.len)

FromUtf8Lossy(bs) == LossyFrom(bs, 1)

\* WavHeader::from_reader reads these in order; a magic tag is read as a
\* little-endian u32 and turned back into its bytes before the comparison
Layout ==
    << [kind |-> "magic", n |-> 4, tag |-> TagRIFF, err |-> "ExpectedRIFF"],
       [kind |-> "field", n |-> 4, name |-> "file_size"],
       [kind |-> "magic", n |-> 4, tag |-> TagWAVE, err |-> "ExpectedWAVE"],
       [kind |-> "magic", n |-> 4, tag |-> TagFmt, err |-> "ExpectedFmt"],
       [kind |-> "skip", n |-> 4],
       [kind |-> "field", n |-> 2, name |-> "audio_format"],
       [kind |-> "field", n |-> 2, name |-> "channels"],
       [kind |-> "field", n |-> 4, name |-> "sample_rate"],
       [kind |-> "field", n |-> 4, name |-> "bytes_per_sec"],
       [kind |-> "field", n |-> 2, name |-> "bytes_per_block"],
       [kind |-> "field", n |-> 2, name |-> "bits_per_sample"],
       [kind |-> "magic", n |-> 4, tag |-> TagData, err |-> "ExpectedData"],
       [kind |-> "field", n |-> 4, name |-> "data_size"] >>

NoHeader ==
    [file_size |-> 0, audio_format |-> Unknown(0), channels |-> 0,
     sample_rate |-> 0, bytes_per_sec |-> 0, bytes_per_block |-> 0,
     bits_per_sample |-> 0, data_size |-> 0]

NoParse == [ok |-> FALSE, err |-> "None", found |-> <<>>, header |-> NoHeader]

\* the outcome of from_reader without the source it hands back
ParseResult(r) == [ok |-> r.ok, err |-> r.err, found |-> r.found, header |-> r.header]

RECURSIVE ParseFrom(_, _, _)
ParseFrom(s, i, h) ==
    IF i > Len(Layout) THEN [ok |-> TRUE, err |-> "None", found |-> <<>>,
                             header |-> h, rest |-> s]
    ELSE LET st == Layout[i]
         IN IF ~CanRead(s, st.n)
            THEN [ok |-> FALSE, err |-> "IOError", found |-> <<>>,
                  header |-> NoHeader,
                  rest |-> [s EXCEPT !.pos = Len(s.bytes)]]
            ELSE LET v == LeUnsigned(ReadBytes(s, st.n))
                     nxt == Advance(s, st.n)
                 IN CASE st.kind = "magic" ->
                           IF ToLeBytes(v, 4) # st.tag
                           THEN [ok |-> FALSE, err |-> st.err,
                                 found |-> FromUtf8Lossy(ToLeBytes(v, 4)),
                                 header |-> NoHeader, rest |-> nxt]
                           ELSE ParseFrom(nxt, i + 1, h)
                      [] st.kind = "skip" -> ParseFrom(nxt, i + 1, h)
                      [] OTHER ->
                           ParseFrom(nxt, i + 1,
                               [h EXCEPT ![st.name] =
                                   IF st.name = "audio_format"
                                   THEN AudioFormat_from_u16(v) ELSE v])

WavHeader_from_reader(s) == ParseFrom(s, 1, NoHeader)

\* the eleven writes of WavHeader::write, in order; data_size is not written
HeaderChunks(h) ==
    << TagRIFF,
       ToLeBytes(h.file_size, 4),
       TagWAVE \o TagFmt,
       ToLeBytes(FmtChunkSize, 4),
       ToLeBytes(AudioFormat_code(h.audio_format), 2),
       ToLeBytes(h.channels, 2),
       ToLeBytes(h.sample_rate, 4),
       ToLeBytes(h.bytes_per_sec, 4),
       ToLeBytes(h.bytes_per_block, 2),
       ToLeBytes(h.bits_per_sample, 2),
       TagData >>

\* the writes made with Write::write, whose byte count is not looked at:
\* b"RIFF", b"WAVEfmt " and b"data"; the others are write_all calls
TagWrites == {1, 3, 11}

\* a sink that takes this many bytes in one call takes every tag whole
WholeWrite == Len(TagWAVE \o TagFmt)

\* WavHeader::write with the f-th write failing (f = 0: none fails), on a
\* sink that takes at most `accept` bytes in one call; a failed write_all
\* has let `keep` of its bytes through; every `?` returns at the first
\* failure
RECURSIVE WriteChunks(_, _, _, _, _, _)
WriteChunks(s, chunks, i, f, keep, accept) ==
    IF i > Len(chunks) THEN [sink |-> s, res |-> "Ok"]
    ELSE IF i \in TagWrites
    THEN IF i = f
         THEN [sink |-> SinkWriteOnce(s, chunks[i], FALSE, accept), res |-> "Err"]
         ELSE WriteChunks(SinkWriteOnce(s, chunks[i], TRUE, accept), chunks,
                          i + 1, f, keep, accept)
    ELSE IF i = f
         THEN [sink |-> SinkWriteAll(s, chunks[i], FALSE, keep), res |-> "Err"]
         ELSE IF accept = 0
         THEN [sink |-> SinkWriteAll(s, chunks[i], FALSE, 0), res |-> "Err"]
         ELSE WriteChunks(SinkWrite(s, chunks[i]), chunks, i + 1, f, keep, accept)

WavHeader_write(h, s, f, keep, accept) ==
    WriteChunks(s, HeaderChunks(h), 1, f, keep, accept)

\* WavFileDesc<T> -> WavHeader, the provisional header of an encoder
DescToHeader(t, d) ==
    [file_size |-> d.length * SizeOf(t) + 36,
     audio_format |-> AudioFormat_from_type(t),
     channels |-> d.channels,
     sample_rate |-> d.sample_rate,
     bytes_per_sec |-> d.sample_rate * d.channels * SizeOf(t),
     bytes_per_block |-> d.channels * SizeOf(t),
     bits_per_sample |-> 8 * SizeOf(t),
     data_size |-> 0]


(***************************************************************************)
(* Streaming Encoder (lowlevel/writer.rs)                                  *)
(*                                                                         *)
(* An encoder value is [data, data_size]; its element type T is a type     *)
(* parameter, passed along as t.                                           *)
(***************************************************************************)
EmptySink == [bytes |-> <<>>, pos |-> 0]
NoSink == [bytes |-> <<>>, pos |-> -1]

\* u32 arithmetic: a sum past u32::MAX panics in a build with overflow
\* checks (the debug profile) and wraps in one without (the release profile)
U32 == 65536 * 65536

AddU32(a, b, checks) ==
    LET sum == a + b
    IN IF sum \div 65536 < 65536 THEN [panic |-> FALSE, v |-> sum]
       ELSE IF checks THEN [panic |-> TRUE, v |-> a]
       ELSE [panic |-> FALSE, v |-> sum % U32]

\* WavWriter::from_file: the assertion on the element width, then the
\* header write, whose result is dropped
WavWriter_from_file(t, h, s, f, keep, accept) ==
    IF h.bits_per_sample # 8 * SizeOf(t)
    THEN [panic |-> TRUE, data |-> s, data_size |-> 0]
    ELSE [panic |-> FALSE,
          data |-> WavHeader_write(h, s, f, keep, accept).sink,
          data_size |-> 0]

\* what one successful write_sample adds to data_size
DataSizeStep(t) == 1

\* mutant of write_sample: the counter also advances when the write failed
WriteSampleFaulty(w, t, v, ok, keep, checks) ==
    [data |-> SinkWriteAll(w.data, to_le_bytes(t, v), ok, keep),
     data_size |-> AddU32(w.data_size, DataSizeStep(t), checks).v,
     res |-> IF ok THEN "Ok" ELSE "Err"]

\* WavWriter::write_sample; ok/keep say how the sink takes the write.  The
\* sample is in the sink before the counter is advanced, so an overflow
\* panic leaves it there with data_size as it was.
WavWriter_write_sample(w, t, v, ok, keep, checks) ==
    IF ok
    THEN LET d == AddU32(w.data_size, DataSizeStep(t), checks)
         IN [data |-> SinkWriteAll(w.data, to_le_bytes(t, v), TRUE, keep),
             data_size |-> d.v,
             res |-> IF d.panic THEN "Panic" ELSE "Ok"]
    ELSE [data |-> SinkWriteAll(w.data, to_le_bytes(t, v), FALSE, keep),
          data_size |-> w.data_size,
          res |-> "Err"]

\* WavWriter::write_iter over the sequence vs, whose f-th write fails
\* (f = 0: none); n counts the write_sample calls that returned Ok
RECURSIVE IterFrom(_, _, _, _, _, _, _)
IterFrom(w, t, vs, i, f, keep, checks) ==
    IF i > Len(vs) THEN [data |-> w.data, data_size |-> w.data_size,
                         res |-> "Ok", n |-> Len(vs)]
    ELSE LET r == WavWriter_write_sample(w, t, vs[i], i # f, keep, checks)
         IN IF r.res # "Ok"
            THEN [data |-> r.data, data_size |-> r.data_size,
                  res |-> r.res, n |-> i - 1]
            ELSE IterFrom([data |-> r.data, data_size |-> r.data_size],
                          t, vs, i + 1, f, keep, checks)

\* the mutant keeps going after a failed write
RECURSIVE IterKeepGoing(_, _, _, _, _, _, _, _)
IterKeepGoing(w, t, vs, i, f, keep, checks, res) ==
    IF i > Len(vs) THEN [data |-> w.data, data_size |-> w.data_size,
                         res |-> res, n |-> Len(vs)]
    ELSE LET r == WavWriter_write_sample(w, t, vs[i], i # f, keep, checks)
         IN IterKeepGoing([data |-> r.data, data_size |-> r.data_size], t, vs,
                          i + 1, f, keep, checks,
                          IF r.res = "Err" THEN "Err" ELSE res)

WriteIterKeepGoing(w, t, vs, f, keep, checks) ==
    IterKeepGoing(w, t, vs, 1, f, keep, checks, "Ok")

WavWriter_write_iter(w, t, vs, f, keep, checks) ==
    IterFrom(w, t, vs, 1, f, keep, checks)

\* the five sink operations of patch_file
PatchOps == 1..5

\* WavWriter::patch_file; F is the set of its sink operations that fail.
\* Every result is dropped, so each operation runs whatever came before,
\* and the function returns Ok(()).  data_size + 40 is computed first: when
\* it overflows under overflow checks, none of the operations runs.
WavWriter_patch_file(w, F, keep, checks) ==
    LET file_size == AddU32(w.data_size, 40, checks)
        s1 == SinkSeekStart(w.data, 4, 1 \notin F)
        s2 == SinkWriteAll(s1, ToLeBytes(file_size.v, 4), 2 \notin F, keep)
        s3 == SinkSeekStart(s2, 40, 3 \notin F)
        s4 == SinkWriteAll(s3, ToLeBytes(w.data_size, 4), 4 \notin F, keep)
        s5 == SinkSeekEnd(s4, 5 \notin F)
    IN IF file_size.panic THEN [data |-> w.data, res |-> "Panic"]
       ELSE [data |-> s5, res |-> "Ok"]

\* WavWriter::into_inner: patch, clone the sink, then self goes out of scope
\* and Drop patches the original once more (F2: the faults of that run); a
\* panic in the first patch unwinds into the same Drop
WavWriter_into_inner(w, F1, F2, keep, checks) ==
    LET p1 == WavWriter_patch_file(w, F1, keep, checks)
        p2 == WavWriter_patch_file([data |-> p1.data, data_size |-> w.data_size],
                                   F2, keep, checks)
    IN IF p1.res # "Ok"
       THEN [res |-> p1.res, out |-> NoSink, data |-> p2.data, patches |-> 2]
       ELSE [res |-> "Ok", out |-> p1.data, data |-> p2.data, patches |-> 2]

\* Drop for WavWriter
WavWriter_drop(w, F, keep, checks) ==
    LET p == WavWriter_patch_file(w, F, keep, checks)
    IN [data |-> p.data, patches |-> 1, res |-> p.res]


(***************************************************************************)
(* Format Dispatcher and Streaming Decoder (lowlevel/mod.rs, reader.rs)    *)
(***************************************************************************)
\* WavFile::len: data_size * 8 in u32 (past u32::MAX it panics under
\* overflow checks and wraps without them), then the division, which panics
\* for data_size = 0
WavFile_len(h, checks) ==
    IF h.data_size = 0 THEN [panic |-> TRUE, n |-> 0]
    ELSE IF h.data_size \div 8192 < 65536
    THEN [panic |-> FALSE, n |-> (h.data_size * 8) \div h.data_size]
    ELSE IF checks THEN [panic |-> TRUE, n |-> 0]
    ELSE [panic |-> FALSE, n |-> ((h.data_size * 8) % U32) \div h.data_size]

\* mutant of samples: the block size is taken for the element width
SamplesByBlock(h, withDasp) ==
    IF h.channels = 0 THEN "Panic"
    ELSE LET width == h.bytes_per_block
             fmt == h.audio_format.kind
         IN CASE width = 1 /\ fmt = "PCMLinear" -> "U8"
              [] width = 2 /\ fmt = "PCMLinear" -> "I16"
              [] width = 3 /\ fmt = "PCMLinear" /\ withDasp -> "I24"
              [] width = 4 /\ fmt = "PCMLinear" -> "I32"
              [] width = 4 /\ fmt = "PCMFloat" -> "F32"
              [] width = 6 /\ fmt = "PCMLinear" /\ withDasp -> "I48"
              [] width = 8 /\ fmt = "PCMLinear" -> "I64"
              [] width = 8 /\ fmt = "PCMFloat" -> "F64"
              [] OTHER -> "Err"

\* WavFile::samples: the variant selected, "Err", or "Panic" (division by 0)
WavFile_samples(h, withDasp) ==
    IF h.channels = 0 THEN "Panic"
    ELSE LET width == h.bytes_per_block \div h.channels
             fmt == h.audio_format.kind
         IN CASE width = 1 /\ fmt = "PCMLinear" -> "U8"
              [] width = 2 /\ fmt = "PCMLinear" -> "I16"
              [] width = 3 /\ fmt = "PCMLinear" /\ withDasp -> "I24"
              [] width = 4 /\ fmt = "PCMLinear" -> "I32"
              [] width = 4 /\ fmt = "PCMFloat" -> "F32"
              [] width = 6 /\ fmt = "PCMLinear" /\ withDasp -> "I48"
              [] width = 8 /\ fmt = "PCMLinear" -> "I64"
              [] width = 8 /\ fmt = "PCMFloat" -> "F64"
              [] OTHER -> "Err"

\* the element type and width each SampleIteratorFormat variant decodes
VariantType(v) ==
    CASE v = "U8" -> "u8"
      [] v = "I16" -> "i16"
      [] v = "I24" -> "I24"
      [] v = "I32" -> "i32"
      [] v = "I48" -> "I48"
      [] v = "I64" -> "i64"
      [] v = "F32" -> "f32"
      [] v = "F64" -> "f64"

\* next() reads size_of::<T>() bytes; dasp_sample::I24 and I48 are newtypes
\* over i32 and i64
VariantWidth(v) ==
    CASE v = "I24" -> SizeOf("i32")
      [] v = "I48" -> SizeOf("i64")
      [] OTHER -> SizeOf(VariantType(v))

VariantSigned(v) == v \in {"I16", "I24", "I32", "I48", "I64"}

\* WavSampleIterator::next: T::read(...).ok()
CanNext(s, v) == CanRead(s, VariantWidth(v))

NextValue(s, v) == FromLe(ReadBytes(s, VariantWidth(v)), VariantSigned(v))

(***************************************************************************)
(* Inputs                                                                  *)
(***************************************************************************)
Pos(mag) == [neg |-> FALSE, mag |-> mag]
Neg(mag) == [neg |-> TRUE, mag |-> mag]

\* sample values per element type: for the floats 1.0 and -2.0
Values(t) ==
    CASE t = "u8" -> {Pos(<<7>>), Pos(<<200>>)}
      [] t = "i8" -> {Neg(<<1>>), Pos(<<5>>)}
      [] t = "u16" -> {Pos(<<1, 2>>), Pos(<<64, 156>>)}
      [] t = "i16" -> {Neg(<<2>>), Pos(<<2, 1>>)}
      [] t = "u32" -> {Pos(<<0, 0, 1>>), Pos(<<4, 3, 2, 200>>)}
      [] t = "i32" -> {Neg(<<3>>), Pos(<<4, 3, 2, 1>>)}
      [] t = "u64" -> {Pos(<<1>>), Pos(<<8, 7, 6, 5, 4, 3, 2, 255>>)}
      [] t = "i64" -> {Neg(<<4>>), Pos(<<8, 7, 6, 5, 4, 3, 2, 1>>)}
      [] t = "f32" -> {Pos(<<0, 0, 128, 63>>), Pos(<<0, 0, 0, 192>>)}
      [] t = "f64" -> {Pos(<<0, 0, 0, 0, 0, 0, 240, 63>>),
                       Pos(<<0, 0, 0, 0, 0, 0, 0, 192>>)}

\* the element types encoders are opened with: every width, both format
\* kinds, and one type from_type maps to Unknown(0)
EncTypes == {"u8", "i16", "f32", "i64", "u16"}

\* descriptors: mono with the length left at 0, stereo with a declared length
Descs ==
    { [channels |-> 1, sample_rate |-> 44100, length |-> 0],
      [channels |-> 2, sample_rate |-> 8000, length |-> 1] }

SeqsUpTo(S, n) == UNION {[1..k -> S] : k \in 0..n}

\* how many bytes of a failed sample write of n bytes may have gone through
Keeps(n) == {0, n - 1}

\* a failed write of the header or of the backpatch leaves none of its bytes
NoneKept == 0

\* the builds to tell apart at a counter value n: with or without overflow
\* checks.  Below 2^28 no u32 sum or product of the codec overflows, the
\* two builds behave alike and one stands for both.
Builds(n) == IF n \div 4096 < 65536 THEN {TRUE} ELSE BOOLEAN

\* how many bytes the sink takes in one write call: two, or any write whole
Accepts == {2, WholeWrite}

NoLog ==
    [written |-> <<>>, hdrFault |-> FALSE, hdrShort |-> FALSE,
     sampleFaults |-> 0,
     patchFault |-> FALSE, patches |-> 0, closedBy |-> "none",
     prePatch |-> <<>>, lastOp |-> "none",
     iterIn |-> <<>>, iterFail |-> 0, ds0 |-> 0, bytes0 |-> <<>>,
     iterCalled |-> FALSE]

NoDesc == [channels |-> 0, sample_rate |-> 0, length |-> 0]

EncIdle ==
    /\ wstate = "Unopened"
    /\ elemT = "u8"
    /\ desc = NoDesc
    /\ header = NoHeader
    /\ data = EmptySink
    /\ data_size = 0
    /\ returned = NoSink
    /\ result = "None"
    /\ log = NoLog

DecIdle ==
    /\ parsed = NoParse
    /\ iter = "None"
    /\ yielded = <<>>
    /\ ended = FALSE
    /\ lenSeen = [called |-> FALSE, at |-> 0, panic |-> FALSE, n |-> 0]

\* a decoder input: the four tags as stored, the header fields, and how
\* many payload bytes follow the header
IntactTags == <<TagRIFF, TagWAVE, TagFmt, TagData>>

\* replacements for a tag, each with the text from_utf8_lossy gives for it
\* (worked out by hand from the UTF-8 encoding rules)
CorruptTags ==
    { [bytes |-> <<82, 73, 70, 88>>, text |-> <<82, 73, 70, 88>>],
      [bytes |-> <<0, 0, 0, 0>>, text |-> <<0, 0, 0, 0>>],
      [bytes |-> <<255, 73, 70, 70>>, text |-> <<239, 191, 189, 73, 70, 70>>],
      [bytes |-> <<82, 195, 169, 70>>, text |-> <<82, 195, 169, 70>>],
      [bytes |-> <<195, 40, 70, 70>>, text |-> <<239, 191, 189, 40, 70, 70>>],
      [bytes |-> <<226, 130, 172, 33>>, text |-> <<226, 130, 172, 33>>],
      [bytes |-> <<240, 159, 146, 70>>, text |-> <<239, 191, 189, 70>>],
      [bytes |-> <<237, 160, 128, 65>>,
       text |-> <<239, 191, 189, 239, 191, 189, 239, 191, 189, 65>>] }

TagChoices(i) == {IntactTags[i]} \cup {c.bytes : c \in CorruptTags}

PayloadByte(i) == (251 + i) % 256

BlockSizes == 0..8 \cup {10, 12, 16}

FormatCodes == {1, 2, 3}

\* inputs whose tags vary, around one mono 16-bit header
TagInputs ==
    { [tags |-> <<a, b, c, d>>, code |-> 1, channels |-> 1, block |-> 2,
       size |-> 2, payload |-> 2, cut |-> k] :
        a \in TagChoices(1), b \in TagChoices(2), c \in TagChoices(3),
        d \in TagChoices(4), k \in {46} }

\* inputs cut short inside the header
ShortInputs ==
    { [tags |-> IntactTags, code |-> 1, channels |-> 1, block |-> 2,
       size |-> 2, payload |-> 2, cut |-> k] : k \in {0, 3, 14, 43} }

\* inputs whose fields vary, with the tags intact
FieldInputs ==
    { [tags |-> IntactTags, code |-> c, channels |-> ch, block |-> b,
       size |-> ds, payload |-> n, cut |-> 44 + n] :
        c \in FormatCodes, ch \in 0..2, b \in BlockSizes,
        ds \in 0..MaxPayload, n \in 0..MaxPayload }

Inputs == TagInputs \cup ShortInputs \cup FieldInputs

NoInput ==
    [tags |-> <<>>, code |-> 0, channels |-> 0, block |-> 0, size |-> 0,
     payload |-> 0, cut |-> 0]

\* the bytes of an input, in the layout of the canonical 44-byte header
InputBytes(in) ==
    LET width == IF in.channels = 0 THEN in.block ELSE in.block \div in.channels
        all == in.tags[1] \o ToLeBytes(36 + in.size, 4) \o in.tags[2]
               \o in.tags[3] \o ToLeBytes(FmtChunkSize, 4)
               \o ToLeBytes(in.code, 2) \o ToLeBytes(in.channels, 2)
               \o ToLeBytes(44100, 4) \o ToLeBytes(44100 * in.block, 4)
               \o ToLeBytes(in.block, 2) \o ToLeBytes(8 * width, 2)
               \o in.tags[4] \o ToLeBytes(in.size, 4)
               \o [i \in 1..in.payload |-> PayloadByte(i)]
    IN SubSeq(all, 1, in.cut)

\* an encoder run in the default build, the decoder waiting for its bytes
Init ==
    /\ dasp = FALSE
    /\ EncIdle
    /\ faultsLeft = MaxFaults
    /\ src = EmptySink
    /\ rstate = "NoSource"
    /\ input = NoInput
    /\ DecIdle

\* a decoder opened on a generated input, in either build
InitDec ==
    /\ dasp \in BOOLEAN
    /\ EncIdle
    /\ faultsLeft = 0
    /\ \E in \in Inputs :
         /\ input = in
         /\ src = [bytes |-> InputBytes(in), pos |-> 0]
    /\ rstate = "Source"
    /\ DecIdle

(***************************************************************************)
(* Encoder actions                                                         *)
(***************************************************************************)
Me == [data |-> data, data_size |-> data_size]

\* open an encoder of element type t on an empty sink: WavFile::write
\* followed by WavWriter::from_file
Open ==
    /\ wstate = "Unopened"
    /\ \E t \in EncTypes, d \in Descs, f \in 0..11, accept \in Accepts :
           LET h == DescToHeader(t, d)
               w == WavWriter_from_file(t, h, EmptySink, f, NoneKept, accept)
               short == accept < WholeWrite
           IN /\ short => f = 0
              /\ (f # 0 \/ short) => faultsLeft > 0
              /\ faultsLeft' = IF f # 0 \/ short THEN faultsLeft - 1
                               ELSE faultsLeft
              /\ elemT' = t
              /\ desc' = d
              /\ header' = h
              /\ data' = w.data
              /\ data_size' = w.data_size
              /\ wstate' = IF w.panic THEN "Panicked" ELSE "Writing"
              /\ result' = IF w.panic THEN "Panic" ELSE "Ok"
              /\ log' = [log EXCEPT !.hdrFault = (f # 0), !.hdrShort = short,
                                    !.lastOp = "open"]
    /\ UNCHANGED <<dasp, returned>>
    /\ UNCHANGED decVars

WriteSample ==
    /\ wstate = "Writing"
    /\ Len(log.written) < MaxSamples
    /\ \E v \in Values(elemT), ok \in BOOLEAN, checks \in Builds(data_size) :
         \E keep \in (IF ok THEN {0} ELSE Keeps(SizeOf(elemT))) :
           LET r == WavWriter_write_sample(Me, elemT, v, ok, keep, checks)
           IN /\ ~ok => faultsLeft > 0
              /\ wstate' = IF r.res = "Panic" THEN "Panicked" ELSE wstate
              /\ faultsLeft' = IF ok THEN faultsLeft ELSE faultsLeft - 1
              /\ data' = r.data
              /\ data_size' = r.data_size
              /\ result' = r.res
              /\ log' = [log EXCEPT
                           !.written = IF ok THEN Append(@, v) ELSE @,
                           !.sampleFaults = IF ok THEN @ ELSE @ + 1,
                           !.lastOp = "write_sample",
                           !.iterIn = <<>>, !.iterFail = 0,
                           !.ds0 = data_size, !.bytes0 = <<>>]
    /\ UNCHANGED <<dasp, elemT, desc, header, returned>>
    /\ UNCHANGED decVars

\* write_iter is called at most once in a run, among any write_sample calls
WriteIter ==
    /\ wstate = "Writing"
    /\ ~log.iterCalled
    /\ \E vs \in SeqsUpTo(Values(elemT), MaxIter), checks \in Builds(data_size) :
         \E f \in 0..Len(vs) :
           \E keep \in (IF f = 0 THEN {0} ELSE Keeps(SizeOf(elemT))) :
             LET r == WavWriter_write_iter(Me, elemT, vs, f, keep, checks)
                 k == IF f = 0 THEN Len(vs) ELSE f - 1
             IN /\ Len(log.written) + k <= MaxSamples
                /\ wstate' = IF r.res = "Panic" THEN "Panicked" ELSE wstate
                /\ (f # 0) => faultsLeft > 0
                /\ faultsLeft' = IF f # 0 THEN faultsLeft - 1 ELSE faultsLeft
                /\ data' = r.data
                /\ data_size' = r.data_size
                /\ result' = r.res
                /\ log' = [log EXCEPT
                             !.written = @ \o SubSeq(vs, 1, k),
                             !.sampleFaults = IF f = 0 THEN @ ELSE @ + 1,
                             !.lastOp = "write_iter",
                             !.iterCalled = TRUE,
                             !.iterIn = vs,
                             !.iterFail = f,
                             !.ds0 = data_size,
                             !.bytes0 = data.bytes]
    /\ UNCHANGED <<dasp, elemT, desc, header, returned>>
    /\ UNCHANGED decVars

IntoInner ==
    /\ wstate = "Writing"
    /\ \E F1 \in SUBSET PatchOps, F2 \in SUBSET PatchOps,
          checks \in Builds(data_size) :
         LET r == WavWriter_into_inner(Me, F1, F2, NoneKept, checks)
         IN /\ Cardinality(F1) + Cardinality(F2) <= faultsLeft
            /\ faultsLeft' = faultsLeft - Cardinality(F1) - Cardinality(F2)
            /\ data' = r.data
            /\ returned' = r.out
            /\ result' = r.res
            /\ wstate' = IF r.res = "Panic" THEN "Panicked" ELSE "Closed"
            /\ log' = [log EXCEPT
                         !.patchFault = (F1 # {}),
                         !.patches = @ + r.patches,
                         !.closedBy = "into_inner",
                         !.prePatch = data.bytes,
                         !.lastOp = "into_inner",
                         !.iterIn = <<>>, !.iterFail = 0,
                         !.ds0 = 0, !.bytes0 = <<>>]
    /\ UNCHANGED <<dasp, elemT, desc, header, data_size>>
    /\ UNCHANGED decVars

\* the encoder goes out of scope without into_inner
Drop ==
    /\ wstate = "Writing"
    /\ \E F \in SUBSET PatchOps, checks \in Builds(data_size) :
         LET r == WavWriter_drop(Me, F, NoneKept, checks)
         IN /\ Cardinality(F) <= faultsLeft
            /\ faultsLeft' = faultsLeft - Cardinality(F)
            /\ data' = r.data
            /\ result' = IF r.res = "Panic" THEN "Panic" ELSE "None"
            /\ wstate' = IF r.res = "Panic" THEN "Panicked" ELSE "Closed"
            /\ log' = [log EXCEPT
                         !.patchFault = (F # {}),
                         !.patches = @ + r.patches,
                         !.closedBy = "drop",
                         !.prePatch = data.bytes,
                         !.lastOp = "drop",
                         !.iterIn = <<>>, !.iterFail = 0,
                         !.ds0 = 0, !.bytes0 = <<>>]
    /\ UNCHANGED <<dasp, elemT, desc, header, data_size, returned>>
    /\ UNCHANGED decVars

(***************************************************************************)
(* Decoder actions                                                         *)
(***************************************************************************)
\* the bytes a closed encoder left behind are opened for reading, after a
\* run in which no sink operation failed
LoadEncoded ==
    /\ wstate = "Closed"
    /\ faultsLeft = MaxFaults
    /\ rstate = "NoSource"
    /\ src' = [bytes |-> IF log.closedBy = "into_inner" THEN returned.bytes
                         ELSE data.bytes,
               pos |-> 0]
    /\ rstate' = "Source"
    /\ UNCHANGED <<parsed, iter, yielded, ended, lenSeen, dasp, input>>
    /\ UNCHANGED encVars

\* WavFile::from_reader
FromReader ==
    /\ rstate = "Source"
    /\ LET r == WavHeader_from_reader(src)
       IN /\ parsed' = ParseResult(r)
          /\ src' = r.rest
          /\ rstate' = IF r.ok THEN "Parsed" ELSE "ParseErr"
    /\ UNCHANGED <<iter, yielded, ended, lenSeen, dasp, input>>
    /\ UNCHANGED encVars

\* WavFile::samples
Samples ==
    /\ rstate = "Parsed"
    /\ LET v == WavFile_samples(parsed.header, dasp)
       IN /\ iter' = v
          /\ rstate' = CASE v = "Panic" -> "Panic"
                         [] v = "Err" -> "Unsupported"
                         [] OTHER -> "Iter"
    /\ UNCHANGED <<src, parsed, yielded, ended, lenSeen, dasp, input>>
    /\ UNCHANGED encVars

\* WavFile::len on the parsed file, or WavSampleIterator::len / size_hint
\* through it
CallLen ==
    /\ rstate \in {"Parsed", "Iter"}
    /\ \E checks \in Builds(parsed.header.data_size) :
       LET r == WavFile_len(parsed.header, checks)
       IN /\ lenSeen' = [called |-> TRUE, at |-> Len(yielded),
                         panic |-> r.panic, n |-> r.n]
          /\ rstate' = IF r.panic THEN "Panic" ELSE rstate
    /\ UNCHANGED <<src, parsed, iter, yielded, ended, dasp, input>>
    /\ UNCHANGED encVars

\* WavSampleIterator::next; a short read consumes an unspecified part of
\* what is left
CallNext ==
    /\ rstate = "Iter"
    /\ ~ended
    /\ IF CanNext(src, iter)
       THEN /\ yielded' = Append(yielded, NextValue(src, iter))
            /\ src' = Advance(src, VariantWidth(iter))
            /\ ended' = FALSE
       ELSE /\ yielded' = yielded
            /\ \E p \in {src.pos, Len(src.bytes)} : src' = [src EXCEPT !.pos = p]
            /\ ended' = TRUE
    /\ UNCHANGED <<rstate, parsed, iter, lenSeen, dasp, input>>
    /\ UNCHANGED encVars

Next ==
    \/ Open
    \/ WriteSample
    \/ WriteIter
    \/ IntoInner
    \/ Drop
    \/ LoadEncoded
    \/ FromReader
    \/ Samples
    \/ CallLen
    \/ CallNext

Spec == Init /\ [][Next]_vars

NextDec ==
    \/ FromReader
    \/ Samples
    \/ CallLen
    \/ CallNext

SpecDec == InitDec /\ [][NextDec]_vars


(***************************************************************************)
(* Properties                                                              *)
(***************************************************************************)
\* the bytes the caller is left with once the encoder is closed
SinkOut == IF log.closedBy = "into_inner" THEN returned.bytes ELSE data.bytes

\* the four bytes at offset off, or <<>> when the sink is shorter
FieldAt(bs, off) == IF Len(bs) >= off + 4 THEN SubSeq(bs, off + 1, off + 4) ELSE <<>>

\* no sink operation of the run failed
FaultFree == faultsLeft = MaxFaults

WrittenCount == Len(log.written)

RECURSIVE Flatten(_, _)
Flatten(t, vs) ==
    IF vs = <<>> THEN <<>> ELSE to_le_bytes(t, Head(vs)) \o Flatten(t, Tail(vs))

\* C1: after a fault-free run that wrote N samples of width W and closed, the
\* u32 at offset 4 is N*W + 40 and the u32 at offset 40 is N*W.
C1_Backpatch ==
    (wstate = "Closed" /\ FaultFree) =>
        /\ FieldAt(SinkOut, 4) = ToLeBytes(WrittenCount * SizeOf(elemT) + 40, 4)
        /\ FieldAt(SinkOut, 40) = ToLeBytes(WrittenCount * SizeOf(elemT), 4)

\* C2: decoding the bytes of a fault-free encoder run of a supported element
\* type gives back the written samples in order, through the variant of the
\* same element type, with the descriptor's channels and sample rate and
\* bits_per_sample = 8 * sizeof(T).
C2_RoundTrip ==
    (rstate # "NoSource" /\ FaultFree
       /\ AudioFormat_from_type(elemT).kind # "Unknown") =>
        /\ rstate \notin {"ParseErr", "Unsupported"}
        /\ iter # "None" =>
             /\ VariantType(iter) = elemT
             /\ parsed.header.channels = desc.channels
             /\ parsed.header.sample_rate = desc.sample_rate
             /\ parsed.header.bits_per_sample = 8 * SizeOf(elemT)
        /\ ended => yielded = log.written

\* C3: in the sink of a fault-free run the header fills offsets 0..43 and the
\* k-th sample offsets 44+k*W .. 44+(k+1)*W-1, and closing changed only the
\* bytes at offsets 4..7 and 40..43.
C3_PayloadPlacement ==
    (wstate = "Closed" /\ FaultFree) =>
        LET w == SizeOf(elemT)
            b == SinkOut
        IN /\ Len(b) = 44 + WrittenCount * w
           /\ \A k \in 0..(WrittenCount - 1) :
                SubSeq(b, 44 + k * w + 1, 44 + (k + 1) * w)
                    = to_le_bytes(elemT, log.written[k + 1])
           /\ \A i \in 1..Len(log.prePatch) :
                (i \notin 5..8 /\ i \notin 41..44) => b[i] = log.prePatch[i]

\* a well-formed decoder input: the tags intact, exactly data_size payload
\* bytes, data_size a multiple of the block size
WellFormed(in) ==
    /\ in.tags = IntactTags
    /\ in.cut = 44 + in.payload
    /\ in.payload = in.size
    /\ in.channels >= 1
    /\ in.block >= 1
    /\ in.size % in.block = 0

\* C4: on a well-formed input, len() before any sample is consumed is
\* data_size / bytes_per_block, and so is the number of samples next() gives
\* before it ends.
C4_LengthConsistency ==
    (WellFormed(input) /\ rstate \in {"Iter", "Panic"} /\ iter # "None") =>
        /\ (lenSeen.called /\ lenSeen.at = 0) =>
              (~lenSeen.panic /\ lenSeen.n = input.size \div input.block)
        /\ ended => Len(yielded) = input.size \div input.block

CorruptedSlots(in) == {i \in 1..Len(in.tags) : in.tags[i] # IntactTags[i]}

TagErr == <<"ExpectedRIFF", "ExpectedWAVE", "ExpectedFmt", "ExpectedData">>

TextOf(bs) == (CHOOSE c \in CorruptTags : c.bytes = bs).text

\* a full header was parsed
HeaderParsed == rstate # "Source" /\ input.cut >= 44

\* C5 (as claimed): with exactly one tag replaced, from_reader fails with
\* that tag's variant carrying the observed four bytes; with the four tags
\* intact it succeeds.
C5_Original ==
    HeaderParsed =>
        /\ \A i \in 1..4 :
             CorruptedSlots(input) = {i} =>
                /\ ~parsed.ok
                /\ parsed.err = TagErr[i]
                /\ parsed.found = input.tags[i]
        /\ CorruptedSlots(input) = {} => parsed.ok

\* C5 (amended): with exactly one tag replaced, from_reader fails with that
\* tag's variant carrying the lossy UTF-8 text of the observed four bytes
\* (the bytes themselves when they are valid UTF-8, U+FFFD for every invalid
\* chunk otherwise); with the four tags intact it succeeds.
C5_HeaderRejection ==
    HeaderParsed =>
        /\ \A i \in 1..4 :
             CorruptedSlots(input) = {i} =>
                /\ ~parsed.ok
                /\ parsed.err = TagErr[i]
                /\ parsed.found = TextOf(input.tags[i])
        /\ CorruptedSlots(input) = {} => parsed.ok

\* exactly one tag, not valid UTF-8, was replaced and the parse has failed
C5_Witness ==
    /\ rstate = "ParseErr"
    /\ CorruptedSlots(input) = {3}
    /\ parsed.err = "ExpectedFmt"
    /\ parsed.found # input.tags[3]

\* the dispatch table of the format dispatcher
Table(width, kind, withDasp) ==
    CASE <<width, kind>> = <<1, "PCMLinear">> -> "U8"
      [] <<width, kind>> = <<2, "PCMLinear">> -> "I16"
      [] <<width, kind>> = <<3, "PCMLinear">> -> IF withDasp THEN "I24" ELSE "Err"
      [] <<width, kind>> = <<4, "PCMLinear">> -> "I32"
      [] <<width, kind>> = <<4, "PCMFloat">> -> "F32"
      [] <<width, kind>> = <<6, "PCMLinear">> -> IF withDasp THEN "I48" ELSE "Err"
      [] <<width, kind>> = <<8, "PCMLinear">> -> "I64"
      [] <<width, kind>> = <<8, "PCMFloat">> -> "F64"
      [] OTHER -> "Err"

Dispatched == iter # "None" /\ parsed.header.channels >= 1

\* C6 (as claimed): samples() selects by the eight-row table, whatever the
\* build, and fails for every other pair.
C6_Original ==
    Dispatched =>
        iter = Table(parsed.header.bytes_per_block \div parsed.header.channels,
                     parsed.header.audio_format.kind, TRUE)

\* C6 (amended): samples() selects by the table, where (3, PCMLinear) -> I24
\* and (6, PCMLinear) -> I48 exist only in a build with the dasp feature; in
\* the default build these two pairs fail like every other unlisted pair.
C6_Dispatch ==
    Dispatched =>
        iter = Table(parsed.header.bytes_per_block \div parsed.header.channels,
                     parsed.header.audio_format.kind, dasp)

\* the default build has dispatched a two-channel 24-bit integer header
C6_Witness ==
    /\ ~dasp
    /\ rstate = "Unsupported"
    /\ iter = "Err"
    /\ parsed.header.channels = 2
    /\ parsed.header.bytes_per_block = 6
    /\ parsed.header.audio_format = PCMLinear

\* C7: when the encoder's lifetime has ended, the backpatch sequence has run
\* exactly once.
C7_ExactlyOnce == wstate = "Closed" => log.patches = 1

\* the size fields hold what the data_size counter says
FieldsPatched(bs) ==
    /\ FieldAt(bs, 4) = ToLeBytes(data_size + 40, 4)
    /\ FieldAt(bs, 40) = ToLeBytes(data_size, 4)

\* C8: an encoder discarded without into_inner, after any successful and
\* failed writes, always leaves the size fields at offsets 4 and 40 rewritten
\* from the data_size counter.
C8_CloseOnDrop ==
    (wstate = "Closed" /\ log.closedBy = "drop") => FieldsPatched(data.bytes)

\* C9: a failed sink operation is reported by the operation that performed
\* it: the open for the header write, write_sample / write_iter for a sample
\* write, into_inner for the backpatch, whose Ok(sink) carries patched fields.
C9_ErrorsSurfaced ==
    /\ (log.lastOp = "open" /\ log.hdrFault) => result = "Err"
    /\ (log.lastOp \in {"write_sample", "write_iter"}
          /\ faultsLeft < MaxFaults /\ ~log.hdrFault /\ ~log.hdrShort) =>
            result = "Err"
    /\ (log.lastOp = "into_inner" /\ result = "Ok") =>
          (~log.patchFault /\ FieldsPatched(returned.bytes))

\* the number of elements the last write_iter call wrote
IterWritten == IF log.iterFail = 0 THEN Len(log.iterIn) ELSE log.iterFail - 1

\* C10: write_iter writes the elements in order and stops at the first
\* failing one with an error: the sink holds the elements before it, at most
\* a part of the failing one and nothing after it, and data_size has advanced
\* for the written elements only; a failed write_sample leaves data_size
\* unchanged.
C10_FailFast ==
    /\ log.lastOp = "write_sample" =>
          data_size = log.ds0 + (IF result = "Ok" THEN DataSizeStep(elemT) ELSE 0)
    /\ log.lastOp = "write_iter" =>
        LET k == IterWritten
            w == SizeOf(elemT)
            done == Flatten(elemT, SubSeq(log.iterIn, 1, k))
            grown == Len(data.bytes) - Len(log.bytes0)
        IN /\ result = (IF log.iterFail = 0 THEN "Ok" ELSE "Err")
           /\ data_size = log.ds0 + k * DataSizeStep(elemT)
           /\ SubSeq(data.bytes, 1, Len(log.bytes0) + k * w) = log.bytes0 \o done
           /\ grown >= k * w
           /\ grown < IF log.iterFail = 0 THEN k * w + 1 ELSE (k + 1) * w

\* write_iter was given two elements and the first write failed
C10_Witness ==
    /\ log.lastOp = "write_iter"
    /\ Len(log.iterIn) = 2
    /\ log.iterFail = 1
    /\ result = "Err"
    /\ data_size = log.ds0

\* C11: the count len() reports decreases with the stream: between two
\* len() calls it drops by the number of samples next() gave in between, and
\* on a well-formed input it is 0 once next() has returned the end.
C11_RemainingLength ==
    /\ [][(lenSeen.called /\ ~lenSeen.panic /\ ~lenSeen'.panic) =>
             lenSeen'.n = lenSeen.n - (lenSeen'.at - lenSeen.at)]_vars
    /\ []((WellFormed(input) /\ ended /\ lenSeen.called /\ ~lenSeen.panic
             /\ lenSeen.at = Len(yielded)) =>
            lenSeen.n = 0)

\* C12: when the source holds bytes after the data_size payload bytes the
\* header declares, the decoder gives at most data_size / sizeof(T) samples
\* and no sample decoded from bytes past offset 44 + data_size.
C12_InsideDataRegion ==
    (rstate = "Iter" /\ input.tags = IntactTags
       /\ input.payload > parsed.header.data_size) =>
        /\ Len(yielded) <= parsed.header.data_size \div VariantWidth(iter)
        /\ 44 + Len(yielded) * VariantWidth(iter)
             <= 44 + parsed.header.data_size

\* C13: on every header from_reader returns, channels = 0 and data_size = 0
\* included, samples() and len() complete with a value: neither aborts with
\* a division by zero.
C13_Total ==
    /\ iter # "Panic"
    /\ ~lenSeen.panic
    /\ rstate # "Panic"


====
